---- MODULE Spec2Model ----
(***************************************************************************)
(* LuxWatch (luxwatch.py): the process scan and trigger matcher, the       *)
(* desktop/game profile state machine driven by the 3 s timer, and the     *)
(* brightness applier.                                                     *)
(*                                                                         *)
(* A Python str is a sequence of one-character strings, so that lower(),   *)
(* basename(), split() and startswith() are computed, not assumed.  A dict *)
(* is a function whose DOMAIN is its key set; d.get(k, dflt) is DictGet.   *)
(* Python's None is the string NoneValue.                                  *)
(***************************************************************************)
EXTENDS Integers, Sequences, FiniteSets, TLC

\* ------------------------------------------------------------------------
\* Python string primitives
\* ------------------------------------------------------------------------

\* F(v), with v evaluated once: a local variable holding a value
Bind(v, F(_)) == CHOOSE r \in {F(x) : x \in {v}} : TRUE

UpperCase ==
    <<"A","B","C","D","E","F","G","H","I","J","K","L","M","N","O","P","Q","R","S","T","U","V","W","X","Y","Z">>

LowerCase ==
    <<"a","b","c","d","e","f","g","h","i","j","k","l","m","n","o","p","q","r","s","t","u","v","w","x","y","z">>

\* str.lower() on one character (ASCII letters; every other character is kept)
LowerChar(c) ==
    IF \E i \in DOMAIN UpperCase : UpperCase[i] = c
    THEN LowerCase[CHOOSE i \in DOMAIN UpperCase : UpperCase[i] = c]
    ELSE c

\* str.lower()
Lower(s) == Bind(s, LAMBDA v : [i \in 1..Len(v) |-> LowerChar(v[i])])

\* the characters str.strip() and str.split() treat as whitespace
IsSpace(c) == c \in {" ", "\t"}

\* str.strip(): drop leading and trailing whitespace
RECURSIVE LStrip(_)
LStrip(s) ==
    IF s = <<>> THEN <<>>
    ELSE IF IsSpace(Head(s)) THEN LStrip(Tail(s)) ELSE s

RECURSIVE RStrip(_)
RStrip(s) ==
    IF s = <<>> THEN <<>>
    ELSE IF IsSpace(s[Len(s)]) THEN RStrip(SubSeq(s, 1, Len(s) - 1)) ELSE s

Strip(s) == Bind(s, LAMBDA v : Bind(LStrip(v), LAMBDA w : RStrip(w)))

\* str.split() with no argument: maximal runs of non-whitespace characters
RECURSIVE SplitFrom(_, _, _)
SplitFrom(s, i, cur) ==
    IF i > Len(s)
    THEN (IF cur = <<>> THEN <<>> ELSE <<cur>>)
    ELSE IF IsSpace(s[i])
         THEN (IF cur = <<>> THEN SplitFrom(s, i + 1, <<>>)
               ELSE <<cur>> \o SplitFrom(s, i + 1, <<>>))
         ELSE SplitFrom(s, i + 1, Append(cur, s[i]))

Split(s) == Bind(s, LAMBDA v : SplitFrom(v, 1, <<>>))

\* os.path.basename(p): what follows the last "/" (all of p when it has none)
LastSlash(p) ==
    LET slashes == {i \in 1..Len(p) : p[i] = "/"}
    IN  IF slashes = {} THEN 0
        ELSE CHOOSE i \in slashes : \A j \in slashes : j <= i

Basename(p) ==
    Bind(p, LAMBDA v : Bind(LastSlash(v), LAMBDA last : SubSeq(v, last + 1, Len(v))))

\* str.startswith(prefix)
StartsWith(s, prefix) ==
    /\ Len(s) >= Len(prefix)
    /\ SubSeq(s, 1, Len(prefix)) = prefix

\* x in <list>
InList(x, list) == \E i \in DOMAIN list : list[i] = x

\* dict.get(k, dflt)
DictGet(d, k, dflt) == IF k \in DOMAIN d THEN d[k] ELSE dflt

\* Python's None
NoneValue == "<None>"

\* ------------------------------------------------------------------------
\* Constants of the program
\* ------------------------------------------------------------------------

SAFE_WRAPPERS ==
    << <<"b","w","r","a","p">>,
       <<"f","l","a","t","p","a","k">>,
       <<"d","i","s","t","r","o","b","o","x">>,
       <<"d","i","s","t","r","o","b","o","x","-","e","n","t","e","r">>,
       <<"p","r","e","s","s","u","r","e","-","v","e","s","s","e","l","-","a","d","v","e","r","b">>,
       <<"s","t","e","a","m">>,
       <<"p","y","t","h","o","n">>,
       <<"p","y","t","h","o","n","3">>,
       <<"s","h">>,
       <<"b","a","s","h">>,
       <<"g","a","m","e","s","c","o","p","e">>,
       <<"m","a","n","g","o","a","p","p">>,
       <<"m","a","n","g","o","h","u","d">> >>

IGNORE_PREFIXES ==
    << <<"/","v","a","r","/","l","i","b","/","f","l","a","t","p","a","k">>,
       <<"/","u","s","r","/","l","i","b","/","e","x","t","e","n","s","i","o","n","s">>,
       <<"/","r","u","n","/","f","l","a","t","p","a","k">> >>

\* ------------------------------------------------------------------------
\* check_processes, lines 241-283: the trigger matcher
\* ------------------------------------------------------------------------

\* the FILTER of line 274: the token starts with one of IGNORE_PREFIXES
IsIgnored(token) ==
    \E i \in DOMAIN IGNORE_PREFIXES : StartsWith(token, IGNORE_PREFIXES[i])

\* the scan of a wrapper's arguments, leaving the loop at an ignored token
RECURSIVE WrapperScanBreak(_, _)
WrapperScanBreak(args, trigger_lower) ==
    IF args = <<>> THEN FALSE
    ELSE IF Lower(Basename(Head(args))) = trigger_lower
         THEN ~IsIgnored(Head(args))
         ELSE WrapperScanBreak(Tail(args), trigger_lower)

\* lines 269-279: the scan of a wrapper's arguments, first to last; TRUE when
\* an argument sets found_profile
RECURSIVE WrapperScan(_, _)
WrapperScan(args, trigger_lower) ==
    IF args = <<>> THEN FALSE
    ELSE LET token == Head(args)
             token_base == Lower(Basename(token))
         IN  IF token_base = trigger_lower
             THEN (IF IsIgnored(token)
                   THEN WrapperScan(Tail(args), trigger_lower)
                   ELSE TRUE)
             ELSE WrapperScan(Tail(args), trigger_lower)

\* lines 253-280: the tests on the tokens of a non-empty process line
ScanTokens(tokens, trigger_lower) ==
    IF tokens = <<>> THEN "skip"
    ELSE Bind(Lower(Basename(tokens[1])), LAMBDA exe_name :
           IF exe_name = trigger_lower THEN "direct"
           ELSE IF InList(exe_name, SAFE_WRAPPERS)
                THEN (IF WrapperScan(Tail(tokens), trigger_lower)
                      THEN "wrapper" ELSE "none")
                ELSE "none")

\* lines 249-280: the body of the loop over out_args for one process line.
\* "skip" (continue), "direct" (line 261), "wrapper" (line 277) or "none".
ScanEntry(raw_args, trigger_lower) ==
    Bind(Strip(raw_args), LAMBDA full_args :
      IF full_args = <<>> THEN "skip"
      ELSE Bind(Split(full_args), LAMBDA tokens : ScanTokens(tokens, trigger_lower)))

EntryHit(raw_args, trigger_lower) ==
    ScanEntry(raw_args, trigger_lower) \in {"direct", "wrapper"}

\* the loop over out_args without the break of line 264: the last hit wins
RECURSIVE ScanProcessesNoBreak(_, _, _)
ScanProcessesNoBreak(out_args, k, trigger_lower) ==
    IF k > Len(out_args) THEN 0
    ELSE Bind(ScanProcessesNoBreak(out_args, k + 1, trigger_lower), LAMBDA later :
           IF later # 0 THEN later
           ELSE IF EntryHit(out_args[k], trigger_lower) THEN k ELSE 0)

\* lines 248-280: for full_args in out_args, from entry k on; the index of
\* the entry that sets found_profile, 0 when the loop ends without one
RECURSIVE ScanProcesses(_, _, _)
ScanProcesses(out_args, k, trigger_lower) ==
    IF k > Len(out_args) THEN 0
    ELSE IF EntryHit(out_args[k], trigger_lower) THEN k
    ELSE ScanProcesses(out_args, k + 1, trigger_lower)

\* lines 245-282: for trigger in profile["triggers"], from trigger j on
RECURSIVE ScanTriggers(_, _, _)
ScanTriggers(triggers, j, out_args) ==
    IF j > Len(triggers) THEN [t |-> 0, e |-> 0]
    ELSE Bind(Lower(triggers[j]), LAMBDA trigger_lower :
           Bind(ScanProcesses(out_args, 1, trigger_lower), LAMBDA e :
             IF e # 0 THEN [t |-> j, e |-> e]
             ELSE ScanTriggers(triggers, j + 1, out_args)))

\* lines 244-283: for profile in get_game_profiles(), from profile i on.
\* kind "match" (found_profile is profile p, by trigger t and entry e),
\* "nomatch" (found_profile is None) or "raise" (profile i has no "triggers"
\* key: KeyError at line 245).
RECURSIVE ScanProfiles(_, _, _)
ScanProfiles(profiles, i, out_args) ==
    IF i > Len(profiles) THEN [kind |-> "nomatch", p |-> 0, t |-> 0, e |-> 0]
    ELSE IF "triggers" \notin DOMAIN profiles[i]
         THEN [kind |-> "raise", p |-> i, t |-> 0, e |-> 0]
         ELSE Bind(ScanTriggers(profiles[i]["triggers"], 1, out_args), LAMBDA r :
                IF r.t # 0
                THEN [kind |-> "match", p |-> i, t |-> r.t, e |-> r.e]
                ELSE ScanProfiles(profiles, i + 1, out_args))

\* lines 241-283 for a snapshot and a profile list
MatchProfiles(profiles, out_args) == ScanProfiles(profiles, 1, out_args)

\* ------------------------------------------------------------------------
\* Monitor inventory and brightness applier
\* ------------------------------------------------------------------------

\* Monitor identifiers the model uses, in the order sorted() gives them
\* (code-point order: upper case before lower case).
MonitorUniverse == <<"DP-1", "DP-2", "DP-3", "HDMI-A-1", "eDP-1">>

\* sorted(monitors)
SortedList(S) == SelectSeq(MonitorUniverse, LAMBDA m : m \in S)

\* line 206: the hard-coded list used when the query finds no monitor
FallbackMonitors == {"HDMI-A-1", "DP-1", "DP-2", "DP-3"}

\* get_connected_monitors: report is the set of connected outputs the
\* kscreen-doctor query yields, {} when it yields none or fails both ways
get_connected_monitors(report) ==
    IF report = {} THEN SortedList(FallbackMonitors) ELSE SortedList(report)

ClampLevelUpperOnly(level) == IF level > 100 THEN 100 ELSE level

Min(a, b) == IF a < b THEN a ELSE b

Max(a, b) == IF a > b THEN a ELSE b

\* line 227: max(0, min(100, int(level))); configured levels are integers
ClampLevel(level) == Max(0, Min(100, level))

\* set_brightness without its try block: a failing command raises out of it
set_brightness_uncaught(monitor_id, level, failing) ==
    [mon |-> monitor_id, level |-> ClampLevel(level), ok |-> monitor_id \notin failing,
     raised |-> monitor_id \in failing]

\* set_brightness: the command handed to subprocess.run; ok is FALSE when
\* the command fails.  The try block of lines 226-231 spans the whole body,
\* so no exception leaves the call: raised is FALSE.
set_brightness(monitor_id, level, failing) ==
    [mon |-> monitor_id, level |-> ClampLevel(level), ok |-> monitor_id \notin failing,
     raised |-> FALSE]

\* the level for one monitor when the enabled flag is not consulted
GameLevelIgnoresEnabled(profile, mon) ==
    DictGet(DictGet(profile["monitors"], mon, [brightness |-> 100, enabled |-> TRUE]),
            "brightness", 100)

\* lines 317-322: the level apply_game_profile passes for one monitor of a
\* profile that has a "monitors" mapping
GameLevel(profile, mon) ==
    LET m_conf == DictGet(profile["monitors"], mon,
                          [brightness |-> 100, enabled |-> TRUE])
    IN  IF ~DictGet(m_conf, "enabled", TRUE)
        THEN 0
        ELSE DictGet(m_conf, "brightness", 100)

\* lines 316-322: the loop over connected, from monitor i on.  A profile
\* without "monitors" raises KeyError at line 317 on the first monitor.
RECURSIVE ApplyGameFrom(_, _, _, _)
ApplyGameFrom(profile, connected, i, failing) ==
    IF i > Len(connected) THEN [raised |-> FALSE, cmds |-> <<>>]
    ELSE IF "monitors" \notin DOMAIN profile
         THEN [raised |-> TRUE, cmds |-> <<>>]
         ELSE Bind(set_brightness(connected[i], GameLevel(profile, connected[i]),
                                  failing), LAMBDA c :
                IF c.raised THEN [raised |-> TRUE, cmds |-> <<c>>]
                ELSE Bind(ApplyGameFrom(profile, connected, i + 1, failing), LAMBDA rest :
                       [raised |-> rest.raised, cmds |-> <<c>> \o rest.cmds]))

\* apply_game_profile
apply_game_profile(profile, report, failing) ==
    Bind(get_connected_monitors(report), LAMBDA connected :
      ApplyGameFrom(profile, connected, 1, failing))

\* lines 307-309: the loop over connected, from monitor i on
RECURSIVE ApplyDesktopFrom(_, _, _, _)
ApplyDesktopFrom(settings, connected, i, failing) ==
    IF i > Len(connected) THEN [raised |-> FALSE, cmds |-> <<>>]
    ELSE Bind(set_brightness(connected[i], DictGet(settings, connected[i], 70),
                             failing), LAMBDA c :
           IF c.raised THEN [raised |-> TRUE, cmds |-> <<c>>]
           ELSE Bind(ApplyDesktopFrom(settings, connected, i + 1, failing), LAMBDA rest :
                  [raised |-> rest.raised, cmds |-> <<c>> \o rest.cmds]))

\* apply_desktop_profile; KeyError at line 305 when the data has no
\* desktop_profile or that has no "monitors"
apply_desktop_profile(d, report, failing) ==
    Bind(get_connected_monitors(report), LAMBDA connected :
      IF "desktop_profile" \notin DOMAIN d
      THEN [raised |-> TRUE, cmds |-> <<>>]
      ELSE IF "monitors" \notin DOMAIN d["desktop_profile"]
      THEN [raised |-> TRUE, cmds |-> <<>>]
      ELSE ApplyDesktopFrom(d["desktop_profile"]["monitors"], connected, 1, failing))

\* ------------------------------------------------------------------------
\* check_processes: one tick
\* ------------------------------------------------------------------------

\* the exception classes raised inside the try block of check_processes
ScanErrors == {"CalledProcessError", "FileNotFoundError", "UnicodeDecodeError"}

ExceptionCaughtNarrow(kind) == kind \in {"CalledProcessError", "KeyError"}

\* line 300: except Exception catches every one of them and KeyError
ExceptionCaught(kind) ==
    kind \in {"CalledProcessError", "FileNotFoundError", "UnicodeDecodeError", "KeyError"}

GameTransitionAlways(name, state, found_name) == TRUE

GameTransitionBoth(name, state, found_name) ==
    name # found_name /\ state # "game"

\* line 286: the game branch applies when the name or the state differs
GameTransitionNeeded(name, state, found_name) ==
    name # found_name \/ state # "game"

\* line 293: the desktop branch applies when the state is not "desktop"
DesktopTransitionNeeded(state) == state # "desktop"

\* lines 289-290 and 296-297: the state a completed application commits
CommitGame(found_name) == [state |-> "game", name |-> found_name]

CommitDesktop == [state |-> "desktop", name |-> NoneValue]

\* found_profile before the matcher has run to its end
Unset == [kind |-> "unset", p |-> 0, t |-> 0, e |-> 0]

TickResult(outcome, m, applied, cmds, state, name) ==
    [outcome |-> outcome, m |-> m, applied |-> applied, cmds |-> cmds,
     state |-> state, name |-> name]

\* an exception in a tick that had set the state before it applied the profile
RaiseCommitted(kind, m, applied, cmds, state, name) ==
    TickResult(IF kind = "KeyError" THEN "raised" ELSE "scan_failed",
               m, applied, cmds,
               IF applied = "none" THEN state ELSE applied,
               name)

\* an exception of class kind leaves the try block: line 300 logs it, or it
\* leaves the slot
Raise(kind, m, applied, cmds, state, name) ==
    TickResult(IF ExceptionCaught(kind)
               THEN (IF kind = "KeyError" THEN "raised" ELSE "scan_failed")
               ELSE "uncaught",
               m, applied, cmds, state, name)

\* check_processes on data d in state (state, name): scan is "ok" or the
\* exception the process listing raises, out_args the listing, report and
\* failing the monitor query's and the brightness commands' outcomes.
check_processes(d, state, name, scan, out_args, report, failing) ==
    IF scan # "ok" THEN Raise(scan, Unset, "none", <<>>, state, name)
    ELSE IF "game_profiles" \notin DOMAIN d
    THEN Raise("KeyError", Unset, "none", <<>>, state, name)
    ELSE Bind(MatchProfiles(d["game_profiles"], out_args), LAMBDA m :
           IF m.kind = "raise"
           THEN Raise("KeyError", m, "none", <<>>, state, name)
           ELSE IF m.kind = "match"
           THEN LET found_profile == d["game_profiles"][m.p]
                IN  IF "name" \notin DOMAIN found_profile
                    THEN Raise("KeyError", m, "none", <<>>, state, name)
                    ELSE IF GameTransitionNeeded(name, state, found_profile["name"])
                    THEN Bind(apply_game_profile(found_profile, report, failing), LAMBDA a :
                           IF a.raised
                           THEN Raise("KeyError", m, "game", a.cmds, state, name)
                           ELSE TickResult("ok", m, "game", a.cmds,
                                           CommitGame(found_profile["name"]).state,
                                           CommitGame(found_profile["name"]).name))
                    ELSE TickResult("ok", m, "none", <<>>, state, name)
           ELSE IF DesktopTransitionNeeded(state)
                THEN Bind(apply_desktop_profile(d, report, failing), LAMBDA a :
                       IF a.raised
                       THEN Raise("KeyError", m, "desktop", a.cmds, state, name)
                       ELSE TickResult("ok", m, "desktop", a.cmds,
                                       CommitDesktop.state, CommitDesktop.name))
                ELSE TickResult("ok", m, "none", <<>>, state, name))

\* ------------------------------------------------------------------------
\* State
\* ------------------------------------------------------------------------

VARIABLES
    data,                \* cfg_manager.data, the loaded configuration
    current_state,       \* LuxWatch.current_state
    active_profile_name, \* LuxWatch.active_profile_name
    crashed,             \* an exception left a slot uncaught
    running,             \* the command lines `ps -A -o args=` lists now
    found,               \* the matcher's result in the last tick
    cmds,                \* the brightness commands the last tick issued
    lastTick,            \* how the last tick went
    prevFound,           \* the profile index the completed tick before the
                         \* last tick resolved (0: none; -1: no such tick)
    probe,               \* one process line and trigger, and ScanEntry's answer
    file,                \* the configuration file CONFIG_FILE
    bak,                 \* its backup, CONFIG_FILE + ".bak"
    op,                  \* the last ConfigManager operation and how it went
    prevOp,              \* the operation before it
    ui                   \* the settings window's handler that waits in a dialog

vars == <<data, current_state, active_profile_name, crashed, running, found,
          cmds, lastTick, prevFound, probe, file, bak, op, prevOp, ui>>

\* the configuration file, its backup and the ConfigManager's history
cfgvars == <<file, bak, op, prevOp>>

\* ------------------------------------------------------------------------
\* Inputs: command lines, triggers, configurations
\* ------------------------------------------------------------------------

Trig_g == <<"g">>
Trig_G == <<"G">>
Trig_h == <<"h">>

\* "/u/g"
Line_g == <<"/","u","/","g">>
\* "h -v"
Line_h == <<"h"," ","-","v">>
\* "sh /o/g"
Line_sh_g == <<"s","h"," ","/","o","/","g">>

\* how far outside 0..100 the configured brightness values go
Over == 50

BrightnessValues == {0 - Over, 0, 40, 100, 100 + Over}

Profile_A ==
    [name |-> "A", triggers |-> <<Trig_G>>,
     monitors |-> ("DP-1" :> [brightness |-> 100 + Over, enabled |-> TRUE])
               @@ ("HDMI-A-1" :> [brightness |-> 40, enabled |-> FALSE])
               @@ ("eDP-1" :> [brightness |-> 40, enabled |-> TRUE])]

Profile_B ==
    [name |-> "B", triggers |-> <<Trig_h>>,
     monitors |-> ("DP-1" :> [brightness |-> 0 - Over, enabled |-> TRUE])]

\* two profiles that share the name "X" (add_profile checks no uniqueness)
Profile_X1 ==
    [name |-> "X", triggers |-> <<Trig_g>>,
     monitors |-> ("DP-1" :> [brightness |-> 90, enabled |-> TRUE])]

Profile_X2 ==
    [name |-> "X", triggers |-> <<Trig_h>>,
     monitors |-> ("DP-1" :> [brightness |-> 20, enabled |-> TRUE])]

\* a profile without a "monitors" mapping
Profile_NoMonitors == [name |-> "N", triggers |-> <<Trig_h>>]

Desktop_D == [monitors |-> ("DP-1" :> 60) @@ ("HDMI-A-1" :> 100 + Over)]

\* load_config's defaults, lines 44-48
Defaults ==
    [config_version |-> 1, desktop_profile |-> [monitors |-> <<>>],
     game_profiles |-> <<>>]

\* What load_config can return: the defaults, a current-version document,
\* or (line 71) whatever JSON object the file holds when its version is
\* current or its legacy shape is not recognised, whatever keys it lacks.
Configs ==
    { Defaults,
      [config_version |-> 1, desktop_profile |-> Desktop_D,
       game_profiles |-> <<Profile_A, Profile_B>>],
      [config_version |-> 1, desktop_profile |-> Desktop_D,
       game_profiles |-> <<Profile_X1, Profile_X2>>],
      [config_version |-> 1, desktop_profile |-> Desktop_D,
       game_profiles |-> <<Profile_A, Profile_NoMonitors>>],
      [config_version |-> 1, game_profiles |-> <<Profile_A, Profile_B>>],
      [config_version |-> 1, desktop_profile |-> Desktop_D] }

\* the process listings the environment moves between
Snapshots == { <<>>, <<Line_g>>, <<Line_h>>, <<Line_h, Line_sh_g>> }

\* what the monitor query reports ({}: nothing, or the query failed)
Reports == { {}, {"DP-1"}, {"HDMI-A-1", "DP-1"} }

\* the monitors whose brightness command raises
FailingSets == { {}, {"DP-1"} }

IdleTick ==
    [scan |-> "none", outcome |-> "none", applied |-> "none", pre_state |-> "unknown",
     pre_name |-> NoneValue, first |-> FALSE, connected |-> <<>>,
     handler |-> "none", dirty |-> FALSE]

IdleProbe == [raw_args |-> <<>>, trigger |-> <<>>, result |-> "idle"]

\* no ConfigManager operation looked at yet
IdleOp ==
    [name |-> "none", prev_name |-> "none", arg |-> 0, raised |-> FALSE, wrote |-> FALSE,
     pre_data |-> <<>>, pre_file |-> <<>>, pre_bak |-> <<>>, load |-> <<>>]

\* no handler of the settings window is waiting in a dialog
IdleUI ==
    [open |-> FALSE, handler |-> "none", row |-> 0, dirty |-> FALSE, cmds |-> <<>>,
     edits |-> 0]

\* the configuration file and the settings window are out of sight: the
\* loaded data is all that counts
IdleConfigFile ==
    /\ file = <<>>
    /\ bak = <<>>
    /\ op = IdleOp
    /\ prevOp = IdleOp
    /\ ui = IdleUI

\* ------------------------------------------------------------------------
\* The tray application: __init__ and the timer's ticks
\* ------------------------------------------------------------------------

InitialStateDesktop == "desktop"

\* line 158: the state __init__ assumes
InitialState == "unknown"

\* LuxWatch.__init__, lines 156-159
Init ==
    /\ data \in Configs
    /\ current_state = InitialState
    /\ active_profile_name = NoneValue
    /\ crashed = FALSE
    /\ running \in Snapshots
    /\ found = Unset
    /\ cmds = <<>>
    /\ lastTick = IdleTick
    /\ prevFound = -1
    /\ probe = IdleProbe
    /\ IdleConfigFile

\* One timer tick: check_processes from entry to return.
Tick(scan, report, failing) ==
    /\ ~crashed
    /\ \E r \in {check_processes(data, current_state, active_profile_name,
                                  scan, running, report, failing)} :
           /\ current_state' = r.state
           /\ active_profile_name' = r.name
           /\ found' = r.m
           /\ cmds' = r.cmds
           /\ lastTick' =
                [scan |-> scan, outcome |-> r.outcome, applied |-> r.applied,
                 pre_state |-> current_state, pre_name |-> active_profile_name,
                 first |-> (lastTick.outcome = "none"),
                 connected |-> IF r.applied = "none" THEN <<>>
                               ELSE get_connected_monitors(report),
                 handler |-> ui.handler, dirty |-> ui.dirty]
           /\ crashed' = (r.outcome = "uncaught")
    /\ prevFound' = IF lastTick.outcome = "ok" THEN found.p ELSE prevFound
    /\ UNCHANGED <<data, running, probe, cfgvars, ui>>

\* a tick whose process listing succeeds
TickOk == \E report \in Reports, failing \in FailingSets : Tick("ok", report, failing)

\* a tick whose process listing raises
TickScanFail == \E kind \in ScanErrors : Tick(kind, {}, {})

\* processes start and exit between ticks
SetRunning == \E s \in Snapshots : running' = s /\ UNCHANGED <<data, current_state, active_profile_name, crashed, found, cmds, lastTick, prevFound, probe, cfgvars, ui>>

Next == TickOk \/ TickScanFail \/ SetRunning

Spec == Init /\ [][Next]_vars

\* the timer keeps firing and the process listing keeps succeeding
FairSpec == Spec /\ WF_vars(TickOk)

\* ------------------------------------------------------------------------
\* The state machine's properties
\* ------------------------------------------------------------------------

TickCompleted == lastTick.outcome = "ok"

FoundName == data["game_profiles"][found.p]["name"]

NoCommand == lastTick.applied = "none" /\ cmds = <<>>

\* C1 (debounce): a completed tick whose match result equals the state it
\* started in -- the matched profile's name is the active name and the state
\* is "game", or nothing matched and the state is "desktop" -- calls no apply
\* and issues no brightness command; of two consecutive completed ticks that
\* resolve to the same game profile the second never applies, and a tick that
\* matches a profile while the state does not agree calls apply_game_profile
\* (once: a tick makes at most one apply call).
C1_Debounce ==
    TickCompleted =>
        /\ (/\ found.kind = "match"
            /\ lastTick.pre_state = "game"
            /\ lastTick.pre_name = FoundName) => NoCommand
        /\ (found.kind = "nomatch" /\ lastTick.pre_state = "desktop") => NoCommand
        /\ (found.kind = "match" /\ prevFound = found.p) => NoCommand
        /\ (/\ found.kind = "match"
            /\ ~(lastTick.pre_state = "game" /\ lastTick.pre_name = FoundName))
           => lastTick.applied = "game"

\* two consecutive completed ticks resolved to the same game profile
C1_Witness ==
    /\ TickCompleted
    /\ found.kind = "match"
    /\ prevFound = found.p
    /\ current_state = "game"
    /\ NoCommand

\* C2 (once per real transition): a completed tick that resolves to another
\* profile entry (or to none) than the completed tick before it makes exactly
\* one profile application, also when both entries carry the same name.
C2_OncePerTransition ==
    (TickCompleted /\ prevFound # -1 /\ prevFound # found.p) =>
        lastTick.applied = (IF found.kind = "match" THEN "game" ELSE "desktop")

\* C3 as claimed: the state before the first tick is Desktop, and a first
\* tick that finds no match applies nothing and issues no command.
C3_InitialDesktop ==
    (lastTick.first /\ lastTick.scan = "ok" /\ found.kind = "nomatch") =>
        /\ lastTick.pre_state = "desktop"
        /\ NoCommand

\* C3 amended: before any tick the state is "unknown" with no active profile
\* name; a first tick that finds no match therefore calls
\* apply_desktop_profile and, when that returns, the state is "desktop".
C3_InitialUnknown ==
    /\ lastTick.outcome = "none" =>
         (current_state = "unknown" /\ active_profile_name = NoneValue)
    /\ (lastTick.first /\ lastTick.scan = "ok" /\ found.kind = "nomatch") =>
         /\ lastTick.pre_state = "unknown"
         /\ lastTick.applied = "desktop"
         /\ TickCompleted => (current_state = "desktop" /\ cmds # <<>>)

\* the first tick found no match and applied the desktop profile
C3_Witness ==
    /\ lastTick.first
    /\ TickCompleted
    /\ found.kind = "nomatch"
    /\ lastTick.applied = "desktop"
    /\ Len(cmds) > 0

\* C4 (tick postcondition): after a tick that completed, a matched profile P
\* means state "game" and active name P's name; no match means state
\* "desktop" and active name None.
C4_TickPostcondition ==
    TickCompleted =>
        /\ found.kind = "match" =>
             (current_state = "game" /\ active_profile_name = FoundName)
        /\ found.kind = "nomatch" =>
             (current_state = "desktop" /\ active_profile_name = NoneValue)

\* a completed tick switched from one game profile to another
C4_Witness ==
    /\ TickCompleted
    /\ found.kind = "match"
    /\ lastTick.pre_state = "game"
    /\ lastTick.pre_name # FoundName
    /\ lastTick.applied = "game"

\* no running process matches any trigger of any profile
NothingMatches ==
    /\ "game_profiles" \in DOMAIN data
    /\ MatchProfiles(data["game_profiles"], running).kind = "nomatch"

\* C5 (revert on exit): in every run in which, from some point on, nothing
\* matches -- ticks keep firing and their process listings succeed -- a
\* machine that is in a Game state is eventually in "desktop" for good, with
\* no active name and no further brightness command.  (The state "unknown"
\* is only ever left, never entered: a run that ends in it never was in a
\* Game state.)
C5_RevertOnExit ==
    <>[]NothingMatches =>
        <>[](\/ current_state = "unknown"
             \/ /\ current_state = "desktop"
                /\ active_profile_name = NoneValue
                /\ cmds = <<>>)

\* C8 (scan failure preserves state): a tick whose process listing raises
\* ends inside the tick (logged, nothing escapes the slot), issues no
\* command and leaves current_state and active_profile_name as they were;
\* the tick after it starts from that preserved state.
C8_ScanFailurePreservesState ==
    [][/\ lastTick'.scan \in ScanErrors =>
            /\ lastTick'.outcome = "scan_failed"
            /\ ~crashed'
            /\ cmds' = <<>>
            /\ current_state' = current_state
            /\ active_profile_name' = active_profile_name
       /\ (lastTick.scan \in ScanErrors /\ lastTick' # lastTick) =>
            /\ lastTick'.pre_state = lastTick.pre_state
            /\ lastTick'.pre_name = lastTick.pre_name]_vars

\* a process listing failed while a game profile was active
C8_Witness ==
    /\ lastTick.scan \in ScanErrors
    /\ lastTick.outcome = "scan_failed"
    /\ lastTick.pre_state = "game"
    /\ current_state = "game"
    /\ active_profile_name # NoneValue

\* ------------------------------------------------------------------------
\* The matcher on its own: one process line against one trigger
\* ------------------------------------------------------------------------

\* the longest command line probed, in tokens
MaxTokens == 3

\* "g", "/o/G", "/u/Bwrap", "/run/flatpak/g", "cat", "/RUN/flatpak/g"
ProbeTokens ==
    { <<"g">>, <<"/","o","/","G">>, <<"/","u","/","B","w","r","a","p">>,
      <<"/","r","u","n","/","f","l","a","t","p","a","k","/","g">>,
      <<"c","a","t">>,
      <<"/","R","U","N","/","f","l","a","t","p","a","k","/","g">> }

\* "g", "G", "bwrap"
ProbeTriggers == { <<"g">>, <<"G">>, <<"b","w","r","a","p">> }

RECURSIVE JoinTokens(_)
JoinTokens(ts) ==
    IF Len(ts) = 1 THEN ts[1]
    ELSE ts[1] \o <<" ">> \o JoinTokens(Tail(ts))

TokenSeqs == UNION { [1..n -> ProbeTokens] : n \in 1..MaxTokens }

\* the command lines: tokens joined by blanks, bare or padded with
\* whitespace, and the lines that hold nothing
ProbeLines ==
    { JoinTokens(ts) : ts \in TokenSeqs }
    \cup { <<" ">> \o JoinTokens(ts) \o <<" ", "\t">> : ts \in TokenSeqs }
    \cup { <<>>, <<" ", "\t">> }

InitEntry ==
    /\ data = Defaults
    /\ current_state = InitialState
    /\ active_profile_name = NoneValue
    /\ crashed = FALSE
    /\ running = <<>>
    /\ found = Unset
    /\ cmds = <<>>
    /\ lastTick = IdleTick
    /\ prevFound = -1
    /\ IdleConfigFile
    /\ probe \in { [raw_args |-> l, trigger |-> t, result |-> "idle"] :
                     l \in ProbeLines, t \in ProbeTriggers }

\* lines 246-280 for the probed line and trigger
ScanOne ==
    /\ probe.result = "idle"
    /\ probe' = [probe EXCEPT !.result = ScanEntry(probe.raw_args, Lower(probe.trigger))]
    /\ UNCHANGED <<data, current_state, active_profile_name, crashed, running,
                   found, cmds, lastTick, prevFound, cfgvars, ui>>

SpecEntry == InitEntry /\ [][ScanOne]_vars

\* the tokens of a command line
C7_Tokens(raw) == Split(raw)

C7_Base(token) == Lower(Basename(token))

C7_UnderIgnorePrefix(token) ==
    \E i \in DOMAIN IGNORE_PREFIXES :
        /\ Len(token) >= Len(IGNORE_PREFIXES[i])
        /\ \A k \in 1..Len(IGNORE_PREFIXES[i]) : token[k] = IGNORE_PREFIXES[i][k]

C7_Predicate(raw, trigger) ==
    LET toks == C7_Tokens(raw)
    IN  /\ toks # <<>>
        /\ \/ C7_Base(toks[1]) = Lower(trigger)
           \/ /\ \E w \in DOMAIN SAFE_WRAPPERS : SAFE_WRAPPERS[w] = C7_Base(toks[1])
              /\ \E i \in 2..Len(toks) :
                    /\ C7_Base(toks[i]) = Lower(trigger)
                    /\ ~C7_UnderIgnorePrefix(toks[i])

\* C7 (per-entry match predicate): a process line matches trigger t exactly
\* when it has a token and either the lower-cased basename of its first token
\* is lower-cased t, or that basename is a safe wrapper and a later token has
\* lower-cased basename lower-cased t and starts with no ignore prefix; a
\* line without tokens is skipped.
C7_EntryPredicate ==
    probe.result # "idle" =>
        /\ (probe.result \in {"direct", "wrapper"})
             <=> C7_Predicate(probe.raw_args, probe.trigger)
        /\ (probe.result = "skip") <=> (C7_Tokens(probe.raw_args) = <<>>)

\* a wrapper line matched by a later argument although an earlier argument
\* with the trigger's basename lies under an ignore prefix
C7_Witness ==
    /\ probe.result = "wrapper"
    /\ \E i \in 2..Len(C7_Tokens(probe.raw_args)) :
          /\ C7_Base(C7_Tokens(probe.raw_args)[i]) = Lower(probe.trigger)
          /\ C7_UnderIgnorePrefix(C7_Tokens(probe.raw_args)[i])

\* ------------------------------------------------------------------------
\* The matcher on its own: a profile list against a process listing
\* ------------------------------------------------------------------------

\* the longest profile list and the longest process listing matched
MaxProfiles == 2

MaxProcs == 2

\* "cat g"
Line_cat_g == <<"c","a","t"," ","g">>
\* "  "
Line_blank == <<" ", " ">>

MatchLines == { Line_g, Line_h, Line_sh_g, Line_cat_g, Line_blank }

MatchTriggerLists == { <<>>, <<Trig_g>>, <<Trig_h, Trig_G>>, <<Trig_h>> }

MatchProfileSeqs ==
    UNION { [1..n -> { [name |-> "P", triggers |-> tl, monitors |-> <<>>] :
                         tl \in MatchTriggerLists }] : n \in 0..MaxProfiles }

MatchSnapshots == UNION { [1..n -> MatchLines] : n \in 0..MaxProcs }

InitMatch ==
    /\ data \in { [config_version |-> 1, desktop_profile |-> [monitors |-> <<>>],
                   game_profiles |-> ps] : ps \in MatchProfileSeqs }
    /\ current_state = InitialState
    /\ active_profile_name = NoneValue
    /\ crashed = FALSE
    /\ running \in MatchSnapshots
    /\ found = Unset
    /\ cmds = <<>>
    /\ lastTick = IdleTick
    /\ prevFound = -1
    /\ probe = IdleProbe
    /\ IdleConfigFile

\* a tick with one monitor connected and no command failing
MatchTick == Tick("ok", {"DP-1"}, {})

SpecMatch == InitMatch /\ [][MatchTick]_vars

\* the (profile, trigger, process) index triples that match
C6_Triples ==
    { tr \in UNION { { <<p, t, e>> : t \in 1..Len(data["game_profiles"][p]["triggers"]),
                                      e \in 1..Len(running) } :
                      p \in 1..Len(data["game_profiles"]) } :
        C7_Predicate(running[tr[3]], data["game_profiles"][tr[1]]["triggers"][tr[2]]) }

C6_LexLeq(a, b) ==
    \/ a[1] < b[1]
    \/ a[1] = b[1] /\ a[2] < b[2]
    \/ a[1] = b[1] /\ a[2] = b[2] /\ a[3] <= b[3]

\* C6 (matching precedence): the match a tick selects is the matching
\* (profile index, trigger index, process index) triple that is smallest in
\* lexicographic order, so the earlier of two matching profiles wins; when no
\* triple matches the tick finds no profile.
C6_MatchingPrecedence ==
    lastTick.scan = "ok" =>
        IF C6_Triples = {}
        THEN found.kind = "nomatch"
        ELSE /\ found.kind = "match"
             /\ <<found.p, found.t, found.e>> \in C6_Triples
             /\ \A tr \in C6_Triples : C6_LexLeq(<<found.p, found.t, found.e>>, tr)

\* the first profile is taken by its first trigger, although its second
\* trigger and the second profile match a process earlier in the listing
C6_Witness ==
    /\ found.kind = "match"
    /\ found.p = 1
    /\ found.t = 1
    /\ \E tr \in C6_Triples : tr[1] = 2 /\ tr[3] < found.e
    /\ \E tr \in C6_Triples : tr[1] = 1 /\ tr[2] = 2 /\ tr[3] < found.e

\* ------------------------------------------------------------------------
\* The applier over the configurable monitor settings
\* ------------------------------------------------------------------------

\* a game profile's settings for one monitor: either key may be missing
MonitorEntries ==
    { [brightness |-> b, enabled |-> e] : b \in BrightnessValues, e \in BOOLEAN }
    \cup { [brightness |-> b] : b \in BrightnessValues }
    \cup { [enabled |-> e] : e \in BOOLEAN }

\* "eDP-1" is configured and never connected; "DP-1" is always connected
GameMonitorDicts ==
    { "eDP-1" :> [brightness |-> 40, enabled |-> TRUE] }
    \cup { ("DP-1" :> m) @@ ("eDP-1" :> [brightness |-> 40, enabled |-> TRUE]) :
             m \in MonitorEntries }
    \cup { ("DP-1" :> m) @@ ("HDMI-A-1" :> [brightness |-> 100 + Over, enabled |-> e]) :
             m \in MonitorEntries, e \in BOOLEAN }

DesktopMonitorDicts ==
    { <<>> }
    \cup { "DP-1" :> b : b \in BrightnessValues }
    \cup { ("DP-1" :> b) @@ ("HDMI-A-1" :> c) @@ ("eDP-1" :> 40) :
             b \in BrightnessValues, c \in BrightnessValues }

ApplyConfigs ==
    { [config_version |-> 1, desktop_profile |-> Desktop_D,
       game_profiles |-> << [name |-> "A", triggers |-> <<Trig_g>>, monitors |-> md] >>] :
        md \in GameMonitorDicts }
    \cup { [config_version |-> 1, desktop_profile |-> [monitors |-> dd],
            game_profiles |-> <<Profile_B>>] : dd \in DesktopMonitorDicts }

InitApply ==
    /\ data \in ApplyConfigs
    /\ current_state = InitialState
    /\ active_profile_name = NoneValue
    /\ crashed = FALSE
    /\ running \in { <<>>, <<Line_g>> }
    /\ found = Unset
    /\ cmds = <<>>
    /\ lastTick = IdleTick
    /\ prevFound = -1
    /\ probe = IdleProbe
    /\ IdleConfigFile

SpecApply == InitApply /\ [][TickOk]_vars

\* what the configuration holds for monitor mon in the profile a tick
\* applied: the desktop brightness, or the game profile's entry
C9_DesktopValue(mon) == data["desktop_profile"]["monitors"][mon]

C9_GameEntry(mon) == data["game_profiles"][found.p]["monitors"][mon]

C9_Clamped(v, level) ==
    /\ v > 100 => level = 100
    /\ v < 0 => level = 0
    /\ v \in 0..100 => level = v

\* C9 (clamping): every brightness command a tick issues, for the desktop
\* profile or a game profile, carries a level in 0..100; a configured
\* brightness above 100 is sent as 100, one below 0 as 0, and one in range
\* as it is.
C9_Clamping ==
    \A i \in DOMAIN cmds :
        /\ cmds[i].level \in 0..100
        /\ (/\ lastTick.applied = "desktop"
            /\ cmds[i].mon \in DOMAIN data["desktop_profile"]["monitors"])
           => C9_Clamped(C9_DesktopValue(cmds[i].mon), cmds[i].level)
        /\ (/\ lastTick.applied = "game"
            /\ cmds[i].mon \in DOMAIN data["game_profiles"][found.p]["monitors"]
            /\ "brightness" \in DOMAIN C9_GameEntry(cmds[i].mon)
            /\ "enabled" \in DOMAIN C9_GameEntry(cmds[i].mon)
            /\ C9_GameEntry(cmds[i].mon)["enabled"])
           => C9_Clamped(C9_GameEntry(cmds[i].mon)["brightness"], cmds[i].level)

\* one tick sent 100 for a monitor configured above 100 and 0 for a monitor
\* configured below 0
C9_Witness ==
    /\ lastTick.applied = "desktop"
    /\ \E i \in DOMAIN cmds :
          /\ cmds[i].mon \in DOMAIN data["desktop_profile"]["monitors"]
          /\ C9_DesktopValue(cmds[i].mon) = 100 + Over
          /\ cmds[i].level = 100
    /\ \E i \in DOMAIN cmds :
          /\ cmds[i].mon \in DOMAIN data["desktop_profile"]["monitors"]
          /\ C9_DesktopValue(cmds[i].mon) < 0
          /\ cmds[i].level = 0

\* the level C10 states for a connected monitor of the applied game profile
C10_Level(mon) ==
    IF mon \notin DOMAIN data["game_profiles"][found.p]["monitors"] THEN 100
    ELSE IF /\ "enabled" \in DOMAIN C9_GameEntry(mon)
            /\ C9_GameEntry(mon)["enabled"] = FALSE
         THEN 0
         ELSE IF "brightness" \notin DOMAIN C9_GameEntry(mon) THEN 100
              ELSE IF C9_GameEntry(mon)["brightness"] > 100 THEN 100
              ELSE IF C9_GameEntry(mon)["brightness"] < 0 THEN 0
              ELSE C9_GameEntry(mon)["brightness"]

\* C10 (game profile per monitor): a tick that applies a game profile sends
\* one command to each connected monitor, in the connected order: 0 when the
\* monitor's entry has enabled false, whatever its brightness; otherwise the
\* entry's brightness clamped to 0..100 (100 when the entry has none); 100
\* when the profile has no entry for the monitor.  A monitor the profile
\* configures that is not connected gets no command.
C10_GameProfilePerMonitor ==
    (lastTick.applied = "game" /\ TickCompleted) =>
        /\ Len(cmds) = Len(lastTick.connected)
        /\ \A i \in DOMAIN cmds :
              /\ cmds[i].mon = lastTick.connected[i]
              /\ cmds[i].level = C10_Level(cmds[i].mon)

\* a game profile went to a disabled monitor with a non-zero brightness and
\* to a monitor without an entry, while it configures a monitor that is not
\* connected
C10_Witness ==
    /\ lastTick.applied = "game"
    /\ TickCompleted
    /\ \E i \in DOMAIN cmds :
          /\ cmds[i].mon \in DOMAIN data["game_profiles"][found.p]["monitors"]
          /\ C9_GameEntry(cmds[i].mon) = [brightness |-> 100 + Over, enabled |-> FALSE]
          /\ cmds[i].level = 0
    /\ \E i \in DOMAIN cmds :
          /\ cmds[i].mon \notin DOMAIN data["game_profiles"][found.p]["monitors"]
          /\ cmds[i].level = 100
    /\ \E mon \in DOMAIN data["game_profiles"][found.p]["monitors"] :
          \A i \in DOMAIN cmds : cmds[i].mon # mon

\* ------------------------------------------------------------------------
\* Failure isolation in the brightness applier
\* ------------------------------------------------------------------------

\* C11 (per-monitor failure isolation): when a tick applies a profile and the
\* brightness command fails for a connected monitor, the tick still issues
\* one command to every connected monitor, the ones after the failing one
\* included, and completes its transition: the state is the applied
\* profile's.
C11_FailureIsolation ==
    (lastTick.applied # "none" /\ \E i \in DOMAIN cmds : ~cmds[i].ok) =>
        /\ Len(cmds) = Len(lastTick.connected)
        /\ \A i \in DOMAIN cmds : cmds[i].mon = lastTick.connected[i]
        /\ TickCompleted
        /\ current_state = lastTick.applied
        /\ lastTick.applied = "game" => active_profile_name = FoundName
        /\ lastTick.applied = "desktop" => active_profile_name = NoneValue

\* a game profile went to two monitors, the command for the first failed and
\* the second was still commanded
C11_Witness ==
    /\ lastTick.applied = "game"
    /\ Len(cmds) = 2
    /\ ~cmds[1].ok
    /\ cmds[2].ok
    /\ current_state = "game"
    /\ lastTick.pre_state # "game"

\* ------------------------------------------------------------------------
\* The configuration file: JSON documents, json.load and json.dump
\* ------------------------------------------------------------------------

\* line 17
CONFIG_VERSION == 1

\* A JSON document as the file holds it is a tree of nodes [t, v]: an object
\* is the sequence of its key/value pairs in file order (a key may occur
\* twice), an array the sequence of its items, a number, string or boolean
\* its value.
JNum(n) == [t |-> "num", v |-> n]

JStr(s) == [t |-> "str", v |-> s]

JBool(b) == [t |-> "bool", v |-> b]

JNull == [t |-> "null", v |-> NoneValue]

JArr(items) == [t |-> "arr", v |-> items]

JObj(pairs) == [t |-> "obj", v |-> pairs]

Pair(key, value) == [k |-> key, v |-> value]

\* the position of the last pair of an object that carries key
LastPair(pairs, key) ==
    CHOOSE i \in DOMAIN pairs :
        /\ pairs[i].k = key
        /\ \A j \in DOMAIN pairs : pairs[j].k = key => j <= i

\* json.load on a parsed document, line 55: an object becomes a dict (of a
\* repeated key the last value stays), an array a list, a scalar its value
RECURSIVE json_load(_)
json_load(node) ==
    CASE node.t = "obj" ->
           Bind(node.v, LAMBDA pairs :
             [key \in {pairs[i].k : i \in DOMAIN pairs} |->
                json_load(pairs[LastPair(pairs, key)].v)])
      [] node.t = "arr" -> [i \in DOMAIN node.v |-> json_load(node.v[i])]
      [] OTHER -> node.v

\* the keys of a dict, in the order the writer walks them
RECURSIVE KeySeq(_)
KeySeq(keys) ==
    IF keys = {} THEN <<>>
    ELSE Bind(CHOOSE key \in keys : TRUE, LAMBDA key :
           <<key>> \o KeySeq(keys \ {key}))

\* The Python type json.dump finds at a place of the configuration: the
\* model reads it off the schema position.
ChildKind(kind, key) ==
    CASE kind = "config" ->
           (CASE key = "config_version" -> "int"
              [] key = "desktop_profile" -> "desktop"
              [] key = "game_profiles" -> "profiles"
              [] key = "profiles" -> "wip_profiles"
              [] key = "games" -> "strings"
              [] key = "monitors" -> "alpha_monitors"
              [] OTHER -> "int")
      [] kind = "desktop" -> "levels"
      [] kind = "levels" -> "int"
      [] kind \in {"profile", "wip_profile"} ->
           (CASE key = "name" -> "str"
              [] key = "triggers" -> "strings"
              [] OTHER -> IF kind = "profile" THEN "monitors" ELSE "wip_monitors")
      [] kind \in {"monitors", "wip_monitors", "alpha_monitors"} ->
           (CASE kind = "monitors" -> "entry"
              [] kind = "wip_monitors" -> "wip_entry"
              [] OTHER -> "alpha_entry")
      [] kind \in {"entry", "wip_entry", "alpha_entry"} ->
           IF key = "enabled" THEN "bool" ELSE "int"
      [] OTHER -> "int"

ItemKind(kind) ==
    CASE kind = "profiles" -> "profile"
      [] kind = "wip_profiles" -> "wip_profile"
      [] OTHER -> "str"

\* json.dump, line 127: the document written for a value of the given kind
RECURSIVE json_dump(_, _)
json_dump(kind, value) ==
    CASE kind = "int" -> JNum(value)
      [] kind = "str" -> JStr(value)
      [] kind = "bool" -> JBool(value)
      [] kind \in {"profiles", "wip_profiles", "strings"} ->
           JArr([i \in DOMAIN value |-> json_dump(ItemKind(kind), value[i])])
      [] OTHER ->
           Bind(KeySeq(DOMAIN value), LAMBDA keys :
             JObj([i \in DOMAIN keys |->
                     Pair(keys[i], json_dump(ChildKind(kind, keys[i]), value[keys[i]]))]))
\* d[k] = v on a dict
DictSet(d, key, value) ==
    [x \in DOMAIN d \cup {key} |-> IF x = key THEN value ELSE d[x]]

\* ------------------------------------------------------------------------
\* ConfigManager: load_config and the migrations
\* ------------------------------------------------------------------------

\* lines 88-97: the game profile made of one legacy profile
WipGameProfile(p) ==
    [name |-> p["name"],
     triggers |-> DictGet(p, "triggers", <<>>),
     monitors |->
        Bind(DictGet(p, "monitors", <<>>), LAMBDA mons :
          [mon \in DOMAIN mons |->
             [brightness |-> DictGet(mons[mon], "active_brightness", 100),
              enabled |-> DictGet(mons[mon], "enabled", TRUE)]])]

\* lines 83-85: the desktop levels taken from the first legacy profile
WipDesktopMonitors(old_profiles) ==
    IF old_profiles = <<>> THEN <<>>
    ELSE Bind(DictGet(old_profiles[1], "monitors", <<>>), LAMBDA mons :
           [mon \in DOMAIN mons |-> DictGet(mons[mon], "inactive_brightness", 70)])

\* migrate_wip_to_v1 with the desktop levels left empty
migrate_wip_no_desktop(old_data) ==
    Bind(DictGet(old_data, "profiles", <<>>), LAMBDA old_profiles :
      IF \E i \in DOMAIN old_profiles : "name" \notin DOMAIN old_profiles[i]
      THEN [raised |-> TRUE, data |-> <<>>]
      ELSE [raised |-> FALSE,
            data |-> [config_version |-> 1,
                      desktop_profile |-> [monitors |-> <<>>],
                      game_profiles |->
                         [i \in DOMAIN old_profiles |-> WipGameProfile(old_profiles[i])]]])

\* migrate_wip_to_v1, lines 77-104; p["name"] raises KeyError (line 89) for
\* a legacy profile without a name
migrate_wip_to_v1(old_data) ==
    Bind(DictGet(old_data, "profiles", <<>>), LAMBDA old_profiles :
      IF \E i \in DOMAIN old_profiles : "name" \notin DOMAIN old_profiles[i]
      THEN [raised |-> TRUE, data |-> <<>>]
      ELSE [raised |-> FALSE,
            data |-> [config_version |-> 1,
                      desktop_profile |-> [monitors |-> WipDesktopMonitors(old_profiles)],
                      game_profiles |->
                         [i \in DOMAIN old_profiles |-> WipGameProfile(old_profiles[i])]]])

\* line 108
ImportedName == "Imported Games"

\* migrate_alpha_to_v1 keeping the desktop level of each monitor
migrate_alpha_keep_desktop(old_data) ==
    Bind(DictGet(old_data, "monitors", <<>>), LAMBDA mons :
      [raised |-> FALSE,
       data |-> [config_version |-> 1,
                 desktop_profile |->
                    [monitors |-> [mon \in DOMAIN mons |-> DictGet(mons[mon], "desktop", 70)]],
                 game_profiles |->
                    << [name |-> ImportedName,
                        triggers |-> DictGet(old_data, "games", <<>>),
                        monitors |->
                           [mon \in DOMAIN mons |->
                              [brightness |-> DictGet(mons[mon], "game", 100),
                               enabled |-> TRUE]]] >>]])

\* migrate_alpha_to_v1, lines 106-122
migrate_alpha_to_v1(old_data) ==
    Bind(DictGet(old_data, "monitors", <<>>), LAMBDA mons :
      [raised |-> FALSE,
       data |-> [config_version |-> 1,
                 desktop_profile |-> [monitors |-> <<>>],
                 game_profiles |->
                    << [name |-> ImportedName,
                        triggers |-> DictGet(old_data, "games", <<>>),
                        monitors |->
                           [mon \in DOMAIN mons |->
                              [brightness |-> DictGet(mons[mon], "game", 100),
                               enabled |-> TRUE]]] >>]])

\* the configuration file: missing, unreadable (open raises), invalid (not
\* JSON: json.load raises) or holding a JSON document
FileMissing == [kind |-> "missing", doc |-> JNull]

FileUnreadable == [kind |-> "unreadable", doc |-> JNull]

FileInvalid == [kind |-> "invalid", doc |-> JNull]

FileOf(document) == [kind |-> "doc", doc |-> document]

\* what a call of load_config did: the value returned, whether line 61
\* copied the file to .bak, the steps run in order, and how it ended
LoadResult(d, copied, steps, outcome) ==
    [data |-> d, bak |-> copied, steps |-> steps, outcome |-> outcome]

\* line 57 on a dict: the number data.get("config_version", 0) compares as;
\* vnode is the node the file gives for the key
VersionNumber(vnode) ==
    IF vnode.t = "bool" THEN (IF vnode.v THEN 1 ELSE 0) ELSE vnode.v

\* an except clause for I/O and parse errors only
LoadExceptionCaughtNarrow(kind) == kind \in {"PermissionError", "JSONDecodeError"}

\* line 73: except Exception catches what open, json.load, the dict and
\* version tests and the migrations raise
LoadExceptionCaught(kind) ==
    kind \in {"PermissionError", "JSONDecodeError", "AttributeError", "TypeError",
              "KeyError"}

\* an exception of class kind inside the try block: lines 73-75 return the
\* defaults, or the exception leaves load_config
LoadError(kind, copied, steps) ==
    IF LoadExceptionCaught(kind)
    THEN LoadResult(Defaults, copied, Append(steps, "raise"), "error")
    ELSE LoadResult(<<>>, copied, Append(steps, "raise"), "uncaught")

\* lines 59-71 with the copy of line 61 made after the migration
LoadLegacyCopyLast(d, file_version) ==
    IF file_version = 0 /\ "profiles" \in DOMAIN d /\ "desktop_profile" \notin DOMAIN d
    THEN Bind(migrate_wip_to_v1(d), LAMBDA r :
           IF r.raised
           THEN LoadError("KeyError", FALSE,
                          <<"exists", "open", "parse", "version", "migrate_wip">>)
           ELSE LoadResult(r.data, TRUE,
                           <<"exists", "open", "parse", "version", "migrate_wip", "copy">>,
                           "wip"))
    ELSE LoadResult(d, TRUE, <<"exists", "open", "parse", "version", "copy">>, "as_is")

\* lines 59-71 for a parsed dict d whose version is below CONFIG_VERSION
LoadLegacy(d, file_version) ==
    Bind(<<"exists", "open", "parse", "version", "copy">>, LAMBDA steps :
      IF file_version = 0
      THEN IF "profiles" \in DOMAIN d /\ "desktop_profile" \notin DOMAIN d
           THEN Bind(migrate_wip_to_v1(d), LAMBDA r :
                  IF r.raised
                  THEN LoadError("KeyError", TRUE, Append(steps, "migrate_wip"))
                  ELSE LoadResult(r.data, TRUE, Append(steps, "migrate_wip"), "wip"))
           ELSE IF "desktop_profile" \in DOMAIN d
           THEN LoadResult(DictSet(d, "config_version", 1), TRUE,
                           Append(steps, "stamp"), "stamped")
           ELSE IF "games" \in DOMAIN d
           THEN Bind(migrate_alpha_to_v1(d), LAMBDA r :
                  LoadResult(r.data, TRUE, Append(steps, "migrate_alpha"), "alpha"))
           ELSE LoadResult(d, TRUE, steps, "as_is")
      ELSE LoadResult(d, TRUE, steps, "as_is"))

\* load_config, lines 43-75, on the file f
load_config(f) ==
    IF f.kind = "missing" THEN LoadResult(Defaults, FALSE, <<"exists">>, "missing")
    ELSE IF f.kind = "unreadable" THEN LoadError("PermissionError", FALSE, <<"exists", "open">>)
    ELSE IF f.kind = "invalid" THEN LoadError("JSONDecodeError", FALSE, <<"exists", "open", "parse">>)
    ELSE IF f.doc.t # "obj"
    THEN LoadError("AttributeError", FALSE, <<"exists", "open", "parse", "version">>)
    ELSE Bind(json_load(f.doc), LAMBDA d :
           IF /\ "config_version" \in DOMAIN d
              /\ f.doc.v[LastPair(f.doc.v, "config_version")].v.t \notin {"num", "bool"}
           THEN LoadError("TypeError", FALSE, <<"exists", "open", "parse", "version">>)
           ELSE Bind(IF "config_version" \in DOMAIN d
                     THEN VersionNumber(f.doc.v[LastPair(f.doc.v, "config_version")].v)
                     ELSE 0, LAMBDA file_version :
                  IF file_version < CONFIG_VERSION
                  THEN LoadLegacy(d, file_version)
                  ELSE LoadResult(d, FALSE, <<"exists", "open", "parse", "version">>,
                                  "as_is")))
\* save_config stamping the next version
save_config_bump(d) ==
    Bind(DictSet(d, "config_version", CONFIG_VERSION + 1), LAMBDA stamped :
      [data |-> stamped, file |-> FileOf(json_dump("config", stamped))])

\* save_config, lines 124-127: the stamped data and the file written
save_config(d) ==
    Bind(DictSet(d, "config_version", CONFIG_VERSION), LAMBDA stamped :
      [data |-> stamped, file |-> FileOf(json_dump("config", stamped))])

\* lines 136-140
NewProfile(name) == [name |-> name, triggers |-> <<>>, monitors |-> <<>>]

\* a deletion that always takes the first element
DeleteFirst(list, index) == Tail(list)

\* del list[index] for a 0-based index in range
DeleteAt(list, index) ==
    [i \in 1..(Len(list) - 1) |-> IF i <= index THEN list[i] ELSE list[i + 1]]

\* line 145: 0 <= index < len(...)
IndexInRange(index, length) ==
    0 <= index /\ index < length

\* ------------------------------------------------------------------------
\* Configuration files of the model
\* ------------------------------------------------------------------------

Doc_Levels_D ==
    JObj(<<Pair("DP-1", JNum(60)), Pair("HDMI-A-1", JNum(100 + Over))>>)

Doc_Desktop_D == JObj(<<Pair("monitors", Doc_Levels_D)>>)

Doc_Entry(brightness, enabled) ==
    JObj(<<Pair("brightness", JNum(brightness)), Pair("enabled", JBool(enabled))>>)

Doc_Profile_A ==
    JObj(<<Pair("name", JStr("A")),
           Pair("triggers", JArr(<<JStr(Trig_G)>>)),
           Pair("monitors",
                JObj(<<Pair("DP-1", Doc_Entry(100 + Over, TRUE)),
                       Pair("HDMI-A-1", Doc_Entry(40, FALSE)),
                       Pair("eDP-1", Doc_Entry(40, TRUE))>>))>>)

Doc_Profile_B ==
    JObj(<<Pair("name", JStr("B")),
           Pair("triggers", JArr(<<JStr(Trig_h)>>)),
           Pair("monitors", JObj(<<Pair("DP-1", Doc_Entry(0 - Over, TRUE))>>))>>)

\* a current-version file
Doc_V1 ==
    JObj(<<Pair("config_version", JNum(1)),
           Pair("desktop_profile", Doc_Desktop_D),
           Pair("game_profiles", JArr(<<Doc_Profile_A, Doc_Profile_B>>))>>)

\* a current-version file that writes the key game_profiles twice
Doc_V1_Dup ==
    JObj(<<Pair("game_profiles", JArr(<<Doc_Profile_B>>)),
           Pair("config_version", JNum(1)),
           Pair("desktop_profile", Doc_Desktop_D),
           Pair("game_profiles", JArr(<<Doc_Profile_A>>))>>)

\* current-version files that lack a key of the schema
Doc_V1_NoDesktop ==
    JObj(<<Pair("config_version", JNum(1)),
           Pair("game_profiles", JArr(<<Doc_Profile_A, Doc_Profile_B>>))>>)

Doc_V1_NoProfiles ==
    JObj(<<Pair("config_version", JNum(1)),
           Pair("desktop_profile", Doc_Desktop_D)>>)

\* a file written by a later version of the schema
Doc_V2 ==
    JObj(<<Pair("config_version", JNum(CONFIG_VERSION + 1)),
           Pair("desktop_profile", Doc_Desktop_D),
           Pair("game_profiles", JArr(<<Doc_Profile_A>>))>>)

\* no version, a desktop_profile key: line 66
Doc_V0_Desktop ==
    JObj(<<Pair("desktop_profile", Doc_Desktop_D),
           Pair("game_profiles", JArr(<<Doc_Profile_B>>)),
           Pair("games", JArr(<<JStr(Trig_g)>>))>>)

Doc_WipEntry(inactive, active, enabled) ==
    JObj(<<Pair("inactive_brightness", JNum(inactive)),
           Pair("active_brightness", JNum(active)),
           Pair("enabled", JBool(enabled))>>)

\* legacy profiles of the WIP format
Doc_Wip_P1 ==
    JObj(<<Pair("name", JStr("A")),
           Pair("triggers", JArr(<<JStr(Trig_G), JStr(Trig_g)>>)),
           Pair("monitors",
                JObj(<<Pair("DP-1", Doc_WipEntry(60, 90, TRUE)),
                       Pair("HDMI-A-1", JObj(<<Pair("enabled", JBool(FALSE))>>)),
                       Pair("eDP-1", JObj(<<Pair("active_brightness", JNum(100 + Over))>>))>>))>>)

Doc_Wip_P2 ==
    JObj(<<Pair("name", JStr("B")),
           Pair("monitors", JObj(<<Pair("DP-2", Doc_WipEntry(30, 20, TRUE))>>))>>)

Doc_Wip_Unnamed == JObj(<<Pair("triggers", JArr(<<JStr(Trig_h)>>))>>)

Doc_Wip ==
    JObj(<<Pair("config_version", JNum(0)),
           Pair("profiles", JArr(<<Doc_Wip_P1, Doc_Wip_P2>>))>>)

Doc_Wip_Swapped == JObj(<<Pair("profiles", JArr(<<Doc_Wip_P2, Doc_Wip_P1>>))>>)

Doc_Wip_Empty == JObj(<<Pair("profiles", JArr(<<>>))>>)

\* a WIP file whose second profile has no name: line 89 raises
Doc_Wip_NoName == JObj(<<Pair("profiles", JArr(<<Doc_Wip_P1, Doc_Wip_Unnamed>>))>>)

\* files of the alpha format
Doc_Alpha ==
    JObj(<<Pair("games", JArr(<<JStr(Trig_g), JStr(Trig_h)>>)),
           Pair("monitors",
                JObj(<<Pair("DP-1", JObj(<<Pair("game", JNum(80)), Pair("desktop", JNum(50))>>)),
                       Pair("HDMI-A-1", JObj(<<Pair("desktop", JNum(40))>>))>>))>>)

Doc_Alpha_Bare == JObj(<<Pair("games", JArr(<<JStr(Trig_g)>>))>>)

\* a legacy file of no known shape
Doc_Unknown == JObj(<<Pair("foo", JNum(1))>>)

\* a version below 0
Doc_Negative ==
    JObj(<<Pair("config_version", JNum(0 - 1)),
           Pair("desktop_profile", Doc_Desktop_D),
           Pair("game_profiles", JArr(<<>>))>>)

\* a version that is a string: line 59 raises TypeError
Doc_VersionString ==
    JObj(<<Pair("config_version", JStr("1")),
           Pair("desktop_profile", Doc_Desktop_D),
           Pair("game_profiles", JArr(<<>>))>>)

\* valid JSON that is not an object: line 57 raises AttributeError
Doc_Array == JArr(<<JNum(1)>>)

\* the states of the configuration file
Files ==
    << FileMissing, FileUnreadable, FileInvalid,
       FileOf(Doc_V1), FileOf(Doc_V1_Dup), FileOf(Doc_V1_NoDesktop),
       FileOf(Doc_V1_NoProfiles), FileOf(Doc_V2), FileOf(Doc_V0_Desktop),
       FileOf(Doc_Wip), FileOf(Doc_Wip_Swapped), FileOf(Doc_Wip_Empty),
       FileOf(Doc_Wip_NoName), FileOf(Doc_Alpha), FileOf(Doc_Alpha_Bare),
       FileOf(Doc_Unknown), FileOf(Doc_Negative), FileOf(Doc_VersionString),
       FileOf(Doc_Array), FileOf(JNull) >>

\* the longest game-profile list the model lets add_profile build
MaxList == 3

\* names given to add_profile
NewNames == {"New"}

\* indices given to delete_profile
Indices == (0 - 1)..MaxList

\* ------------------------------------------------------------------------
\* ConfigManager as a state machine
\* ------------------------------------------------------------------------

OpRecord(name, arg, raised, wrote, load) ==
    [name |-> name, prev_name |-> op.name, arg |-> arg, raised |-> raised,
     wrote |-> wrote, pre_data |-> data, pre_file |-> file, pre_bak |-> bak, load |-> load]

\* ConfigManager.__init__, line 41: load_config on the file as it is
Load ==
    \E r \in {load_config(file)} :
       /\ data' = r.data
       /\ bak' = IF r.bak THEN file ELSE bak
       /\ op' = OpRecord("load", 0, FALSE, FALSE, r)
       /\ prevOp' = op
       /\ crashed' = (r.outcome = "uncaught")
       /\ UNCHANGED <<file, current_state, active_profile_name, running, found,
                      cmds, lastTick, prevFound, probe, ui>>

\* the program starts: the file is in one of the states fs, no backup exists
InitFrom(fs) ==
    /\ \E i \in DOMAIN fs : file = fs[i]
    /\ \E r \in {load_config(file)} :
          /\ data = r.data
          /\ bak = IF r.bak THEN file ELSE FileMissing
          /\ op = [name |-> "load", prev_name |-> "none", arg |-> 0, raised |-> FALSE, wrote |-> FALSE,
                   pre_data |-> <<>>, pre_file |-> file, pre_bak |-> FileMissing,
                   load |-> r]
          /\ crashed = (r.outcome = "uncaught")
    /\ prevOp = IdleOp
    /\ current_state = InitialState
    /\ active_profile_name = NoneValue
    /\ running = <<>>
    /\ found = Unset
    /\ cmds = <<>>
    /\ lastTick = IdleTick
    /\ prevFound = -1
    /\ probe = IdleProbe
    /\ ui = IdleUI

InitConfig == InitFrom(Files)

\* the program is started again
Restart == Load

\* cfg_manager.save_config()
SaveConfig ==
    /\ ~crashed
    /\ \E r \in {save_config(data)} :
          /\ data' = r.data
          /\ file' = r.file
    /\ op' = OpRecord("save", 0, FALSE, TRUE, <<>>)
    /\ prevOp' = op
    /\ UNCHANGED <<bak, crashed, current_state, active_profile_name, running, found,
                   cmds, lastTick, prevFound, probe, ui>>

\* an operation that raises KeyError at self.data["game_profiles"]: nothing
\* is changed, the exception leaves the call
OpRaises(name, arg) ==
    /\ op' = OpRecord(name, arg, TRUE, FALSE, <<>>)
    /\ prevOp' = op
    /\ crashed' = TRUE
    /\ UNCHANGED <<data, file, bak, current_state, active_profile_name, running,
                   found, cmds, lastTick, prevFound, probe>>

\* cfg_manager.add_profile(name), lines 135-142
AddProfile(name) ==
    /\ ~crashed
    /\ IF "game_profiles" \notin DOMAIN data
       THEN OpRaises("add", name)
       ELSE /\ Len(data["game_profiles"]) < MaxList
            /\ \E r \in {save_config(DictSet(data, "game_profiles",
                                            Append(data["game_profiles"],
                                                   NewProfile(name))))} :
                  /\ data' = r.data
                  /\ file' = r.file
            /\ op' = OpRecord("add", name, FALSE, TRUE, <<>>)
            /\ prevOp' = op
            /\ UNCHANGED <<bak, crashed, current_state, active_profile_name, running,
                           found, cmds, lastTick, prevFound, probe>>

\* cfg_manager.delete_profile(index), lines 144-147
DeleteProfile(index) ==
    /\ ~crashed
    /\ IF "game_profiles" \notin DOMAIN data
       THEN OpRaises("delete", index)
       ELSE IF IndexInRange(index, Len(data["game_profiles"]))
       THEN /\ \E r \in {save_config(DictSet(data, "game_profiles",
                                            DeleteAt(data["game_profiles"], index)))} :
                  /\ data' = r.data
                  /\ file' = r.file
            /\ op' = OpRecord("delete", index, FALSE, TRUE, <<>>)
            /\ prevOp' = op
            /\ UNCHANGED <<bak, crashed, current_state, active_profile_name, running,
                           found, cmds, lastTick, prevFound, probe>>
       ELSE /\ op' = OpRecord("delete", index, FALSE, FALSE, <<>>)
            /\ prevOp' = op
            /\ UNCHANGED <<data, file, bak, crashed, current_state, active_profile_name,
                           running, found, cmds, lastTick, prevFound, probe>>

Add == \E name \in NewNames : AddProfile(name) /\ UNCHANGED ui

Delete == \E index \in Indices : DeleteProfile(index) /\ UNCHANGED ui

NextConfig == Restart \/ SaveConfig \/ Add \/ Delete

SpecConfig == InitConfig /\ [][NextConfig]_vars

\* ------------------------------------------------------------------------
\* Properties of load_config, the migrations and the editing operations
\* ------------------------------------------------------------------------

\* the schema defaults, spelled out
C12_SchemaDefaults ==
    [config_version |-> CONFIG_VERSION, desktop_profile |-> [monitors |-> <<>>],
     game_profiles |-> <<>>]

\* the file states in which load_config meets an error: missing, unreadable,
\* not JSON, JSON that is not an object, a version that cannot be compared,
\* a legacy profile that makes the migration raise
TreeHas(node, key) == \E i \in DOMAIN node.v : node.v[i].k = key

TreeGet(node, key) == node.v[LastPair(node.v, key)].v

\* the file holds an object whose version is a number, or that has none
VersionReadable(f) ==
    /\ f.kind = "doc"
    /\ f.doc.t = "obj"
    /\ TreeHas(f.doc, "config_version") =>
          TreeGet(f.doc, "config_version").t = "num"

\* the version the file states, 0 when it states none
VersionOf(f) ==
    IF TreeHas(f.doc, "config_version") THEN TreeGet(f.doc, "config_version").v ELSE 0

\* the file is a WIP-format document: no version or version 0, a profiles
\* key and no desktop_profile key
IsWipFile(f) ==
    /\ VersionReadable(f)
    /\ VersionOf(f) = 0
    /\ TreeHas(f.doc, "profiles")
    /\ ~TreeHas(f.doc, "desktop_profile")

\* a WIP-format document with a legacy profile that has no name
WipFileRaises(f) ==
    /\ IsWipFile(f)
    /\ \E i \in DOMAIN TreeGet(f.doc, "profiles").v :
          ~TreeHas(TreeGet(f.doc, "profiles").v[i], "name")

C12_ErrorCase ==
    \/ ~VersionReadable(op.pre_file)
    \/ WipFileRaises(op.pre_file)

\* C12 (load never fails outward): whatever the state of the configuration
\* file, load_config returns (no exception leaves it), and when the file is
\* missing, unreadable, unparsable, not an object or makes a migration raise
\* the value returned is exactly the schema defaults.
C12_LoadNeverFails ==
    op.name = "load" =>
        /\ op.load.outcome # "uncaught"
        /\ ~crashed
        /\ C12_ErrorCase => data = C12_SchemaDefaults

\* a WIP file whose migration raised was loaded: the defaults came back
C12_Witness ==
    /\ op.name = "load"
    /\ WipFileRaises(op.pre_file)
    /\ "migrate_wip" \in {op.load.steps[i] : i \in DOMAIN op.load.steps}
    /\ data = C12_SchemaDefaults

\* C13 (version invariant): whatever the file holds, the value load_config
\* returns has config_version equal to CONFIG_VERSION.
C13_VersionInvariant ==
    op.name = "load" =>
        /\ "config_version" \in DOMAIN data
        /\ data["config_version"] = CONFIG_VERSION

\* where a step of the given name stands in the steps of the last load, 0
\* when it was not run
StepIndex(name) ==
    IF \E i \in DOMAIN op.load.steps : op.load.steps[i] = name
    THEN CHOOSE i \in DOMAIN op.load.steps : op.load.steps[i] = name
    ELSE 0

TreeKeys(node) == {node.v[i].k : i \in DOMAIN node.v}

\* the value the file gives for key, dflt when the object has no such key
TreeValue(node, key, dflt) ==
    IF TreeHas(node, key) THEN json_load(TreeGet(node, key)) ELSE dflt

\* the monitors object of a legacy profile or document, empty when absent
TreeMonitors(node) ==
    IF TreeHas(node, "monitors") THEN TreeGet(node, "monitors") ELSE JObj(<<>>)

\* the legacy profiles of a WIP file
C15_Legacy == TreeGet(op.pre_file.doc, "profiles").v

\* C15 (WIP migration): loading a WIP-format document whose profiles all
\* have a name returns a current-version configuration; its desktop profile
\* has exactly the monitors of the first legacy profile, each at that
\* monitor's inactive_brightness (70 when absent); its game profiles are the
\* legacy profiles in their order, with the same name and triggers, and for
\* exactly the legacy monitors an entry of active_brightness (100 when
\* absent) and enabled (true when absent).
C15_WipMigration ==
    (op.name = "load" /\ IsWipFile(op.pre_file) /\ ~WipFileRaises(op.pre_file)) =>
        /\ DOMAIN data = {"config_version", "desktop_profile", "game_profiles"}
        /\ data["config_version"] = CONFIG_VERSION
        /\ DOMAIN data["desktop_profile"] = {"monitors"}
        /\ IF C15_Legacy = <<>>
           THEN data["desktop_profile"]["monitors"] = <<>>
           ELSE /\ DOMAIN data["desktop_profile"]["monitors"] =
                      TreeKeys(TreeMonitors(C15_Legacy[1]))
                /\ \A mon \in TreeKeys(TreeMonitors(C15_Legacy[1])) :
                      data["desktop_profile"]["monitors"][mon] =
                         TreeValue(TreeGet(TreeMonitors(C15_Legacy[1]), mon),
                                   "inactive_brightness", 70)
        /\ Len(data["game_profiles"]) = Len(C15_Legacy)
        /\ \A i \in DOMAIN C15_Legacy :
              /\ DOMAIN data["game_profiles"][i] = {"name", "triggers", "monitors"}
              /\ data["game_profiles"][i]["name"] = TreeValue(C15_Legacy[i], "name", NoneValue)
              /\ data["game_profiles"][i]["triggers"] =
                    TreeValue(C15_Legacy[i], "triggers", <<>>)
              /\ DOMAIN data["game_profiles"][i]["monitors"] =
                    TreeKeys(TreeMonitors(C15_Legacy[i]))
              /\ \A mon \in TreeKeys(TreeMonitors(C15_Legacy[i])) :
                    data["game_profiles"][i]["monitors"][mon] =
                       [brightness |->
                           TreeValue(TreeGet(TreeMonitors(C15_Legacy[i]), mon),
                                     "active_brightness", 100),
                        enabled |->
                           TreeValue(TreeGet(TreeMonitors(C15_Legacy[i]), mon),
                                     "enabled", TRUE)]

\* the example of the WIP format: DP-1 with inactive 60, active 90, enabled
\* true in the first of two legacy profiles, next to monitors that rely on
\* the fallbacks
C15_Witness ==
    /\ op.name = "load"
    /\ op.load.outcome = "wip"
    /\ Len(data["game_profiles"]) = 2
    /\ data["game_profiles"][1]["name"] = "A"
    /\ data["desktop_profile"]["monitors"]["DP-1"] = 60
    /\ data["game_profiles"][1]["monitors"]["DP-1"] = [brightness |-> 90, enabled |-> TRUE]
    /\ data["desktop_profile"]["monitors"]["HDMI-A-1"] = 70
    /\ data["game_profiles"][1]["monitors"]["HDMI-A-1"] = [brightness |-> 100, enabled |-> FALSE]
    /\ data["game_profiles"][2]["triggers"] = <<>>

\* the file is an alpha-format document: no version or version 0, a games
\* key, neither profiles nor desktop_profile
IsAlphaFile(f) ==
    /\ VersionReadable(f)
    /\ VersionOf(f) = 0
    /\ TreeHas(f.doc, "games")
    /\ ~TreeHas(f.doc, "profiles")
    /\ ~TreeHas(f.doc, "desktop_profile")

\* C16 (alpha migration): loading an alpha-format document returns a
\* current-version configuration with an empty desktop profile and exactly
\* one game profile: its triggers are the legacy games list in its order,
\* its monitors exactly the legacy monitors, each with the legacy game value
\* (100 when absent) as brightness and enabled true.
C16_AlphaMigration ==
    (op.name = "load" /\ IsAlphaFile(op.pre_file)) =>
        /\ DOMAIN data = {"config_version", "desktop_profile", "game_profiles"}
        /\ data["config_version"] = CONFIG_VERSION
        /\ data["desktop_profile"] = [monitors |-> <<>>]
        /\ Len(data["game_profiles"]) = 1
        /\ DOMAIN data["game_profiles"][1] = {"name", "triggers", "monitors"}
        /\ data["game_profiles"][1]["triggers"] =
              TreeValue(op.pre_file.doc, "games", <<>>)
        /\ DOMAIN data["game_profiles"][1]["monitors"] =
              TreeKeys(TreeMonitors(op.pre_file.doc))
        /\ \A mon \in TreeKeys(TreeMonitors(op.pre_file.doc)) :
              data["game_profiles"][1]["monitors"][mon] =
                 [brightness |->
                     TreeValue(TreeGet(TreeMonitors(op.pre_file.doc), mon), "game", 100),
                  enabled |-> TRUE]

\* an alpha file with two games and two monitors, one without a game value
C16_Witness ==
    /\ op.name = "load"
    /\ op.load.outcome = "alpha"
    /\ data["game_profiles"][1]["triggers"] = <<Trig_g, Trig_h>>
    /\ data["game_profiles"][1]["monitors"]["DP-1"] = [brightness |-> 80, enabled |-> TRUE]
    /\ data["game_profiles"][1]["monitors"]["HDMI-A-1"] = [brightness |-> 100, enabled |-> TRUE]
    /\ data["desktop_profile"]["monitors"] = <<>>

\* the file holds a current-version document
IsCurrentFile(f) ==
    /\ VersionReadable(f)
    /\ VersionOf(f) = CONFIG_VERSION

\* C17 (load/save idempotence): when a current-version file is loaded and
\* save_config is called right after, the data in memory stay what load
\* returned and the file written parses to the same value as the file read
\* (same version, desktop profile and game profiles in the same order); a
\* load that follows returns that value again.
C17_LoadSaveIdempotent ==
    /\ (op.name = "save" /\ op.prev_name = "load" /\ IsCurrentFile(op.pre_file)) =>
          /\ data = op.pre_data
          /\ file.kind = "doc"
          /\ json_load(file.doc) = json_load(op.pre_file.doc)
          /\ json_load(file.doc) = data
    /\ (/\ op.name = "load"
        /\ prevOp.name = "save"
        /\ prevOp.prev_name = "load"
        /\ IsCurrentFile(prevOp.pre_file)) =>
          /\ data = prevOp.pre_data
          /\ data = json_load(prevOp.pre_file.doc)

\* a current-version file with two game profiles was loaded, saved and
\* loaded again
C17_Witness ==
    /\ op.name = "load"
    /\ prevOp.name = "save"
    /\ prevOp.prev_name = "load"
    /\ IsCurrentFile(prevOp.pre_file)
    /\ Len(TreeGet(prevOp.pre_file.doc, "game_profiles").v) = 2
    /\ Len(data["game_profiles"]) = 2
    /\ data["game_profiles"][2]["name"] = "B"
    /\ file.kind = "doc"

\* C18 (add/delete round trip): add_profile(name) followed by
\* delete_profile(i), i being the index of the appended profile (the length
\* of the list before the add), leaves the game-profile list as it was
\* before the add, in memory and in the file written.
C18_AddDeleteRoundTrip ==
    (/\ op.name = "delete"
     /\ prevOp.name = "add"
     /\ ~prevOp.raised
     /\ op.arg = Len(prevOp.pre_data["game_profiles"])) =>
        /\ ~op.raised
        /\ data["game_profiles"] = prevOp.pre_data["game_profiles"]
        /\ file.kind = "doc"
        /\ json_load(file.doc)["game_profiles"] = prevOp.pre_data["game_profiles"]

\* a profile was appended to a list of two and deleted by its index
C18_Witness ==
    /\ op.name = "delete"
    /\ prevOp.name = "add"
    /\ ~prevOp.raised
    /\ Len(prevOp.pre_data["game_profiles"]) = 2
    /\ op.arg = 2
    /\ Len(op.pre_data["game_profiles"]) = 3
    /\ op.pre_data["game_profiles"][3] = NewProfile("New")
    /\ Len(data["game_profiles"]) = 2

\* the number of game profiles before the last operation
C19_Count ==
    IF "game_profiles" \in DOMAIN op.pre_data
    THEN Len(op.pre_data["game_profiles"])
    ELSE 0

WindowFilled(d) ==
    /\ "game_profiles" \in DOMAIN d
    /\ \A i \in DOMAIN d["game_profiles"] : "name" \in DOMAIN d["game_profiles"][i]
    /\ "desktop_profile" \in DOMAIN d
    /\ "monitors" \in DOMAIN d["desktop_profile"]

\* load_profile_details(row) has built the pane of row: the desktop pane, or
\* the pane of profile row (lines 426, 482, 499)
RowShown(d, row) ==
    \/ row = 0
    \/ /\ row \in DOMAIN d["game_profiles"]
       /\ "triggers" \in DOMAIN d["game_profiles"][row]
       /\ "monitors" \in DOMAIN d["game_profiles"][row]

\* how many edits the user makes in one run of the program
MaxEdits == 1

\* lines 538-540: every monitor with a spin box gets the spin box's value
SaveDesktop(d, shown, v) ==
    DictSet(d, "desktop_profile",
        DictSet(d["desktop_profile"], "monitors",
            [m \in DOMAIN d["desktop_profile"]["monitors"] \cup {shown[i] : i \in DOMAIN shown} |->
                IF m \in {shown[i] : i \in DOMAIN shown} THEN v
                ELSE d["desktop_profile"]["monitors"][m]]))

\* lines 545-555 on profile row of d: the profile's triggers, and the entry
\* of every monitor with a spin box and a check box
SaveGame(d, row, shown, triggers, v, en) ==
    DictSet(d, "game_profiles",
        [d["game_profiles"] EXCEPT
            ![row] = DictSet(DictSet(@, "triggers", triggers), "monitors",
                [m \in DOMAIN @["monitors"] \cup {shown[i] : i \in DOMAIN shown} |->
                    IF m \in {shown[i] : i \in DOMAIN shown}
                    THEN [brightness |-> v, enabled |-> en]
                    ELSE @["monitors"][m]])])

\* open_settings, lines 221-223: an exception leaves the slot when the data
\* lack what refresh_all reads
OpenSettings ==
    /\ ~crashed
    /\ ui.handler = "none"
    /\ ~ui.open
    /\ IF WindowFilled(data)
       THEN ui' = [ui EXCEPT !.open = TRUE] /\ UNCHANGED crashed
       ELSE crashed' = TRUE /\ UNCHANGED ui
    /\ UNCHANGED <<data, current_state, active_profile_name, running, found, cmds,
                   lastTick, prevFound, probe, cfgvars>>

\* save_current from line 536 to the message box of line 541 or 556: the
\* in-memory data are changed, then QMessageBox.information runs its own
\* event loop until the user closes the box. The pane shows row, the
\* monitors report listed when it was built, and what the user has entered.
SaveCurrentBegin ==
    /\ ~crashed
    /\ ui.open
    /\ ui.handler = "none"
    /\ ui.edits < MaxEdits
    /\ \E row \in 0..MaxList, report \in Reports :
          /\ RowShown(data, row)
          /\ data' = IF row = 0
                     THEN SaveDesktop(data, get_connected_monitors(report), 70)
                     ELSE SaveGame(data, row, get_connected_monitors(report),
                                   <<Trig_g>>, 70, FALSE)
          /\ ui' = [ui EXCEPT !.handler = "save_current", !.row = row, !.dirty = TRUE,
                               !.edits = @ + 1]
    /\ UNCHANGED <<current_state, active_profile_name, crashed, running, found, cmds,
                   lastTick, prevFound, probe, cfgvars>>

\* lines 542-543 and 557-558: the commands save_current issues after the box
SaveCurrentApply(report, failing) ==
    IF ui.row = 0
    THEN (IF current_state = "desktop"
          THEN apply_desktop_profile(data, report, failing)
          ELSE [raised |-> FALSE, cmds |-> <<>>])
    ELSE (IF active_profile_name = data["game_profiles"][ui.row]["name"]
          THEN apply_game_profile(data["game_profiles"][ui.row], report, failing)
          ELSE [raised |-> FALSE, cmds |-> <<>>])

\* save_current from the closing of the box to its return, lines 542-560
SaveCurrentEnd ==
    /\ ~crashed
    /\ ui.handler = "save_current"
    /\ \E report \in Reports, failing \in FailingSets :
          \E a \in {SaveCurrentApply(report, failing)} :
             IF a.raised
             THEN /\ crashed' = TRUE
                  /\ ui' = [ui EXCEPT !.handler = "none", !.cmds = a.cmds]
                  /\ UNCHANGED <<data, file, op, prevOp>>
             ELSE /\ \E r \in {save_config(data)} :
                        /\ data' = r.data
                        /\ file' = r.file
                  /\ op' = OpRecord("save", 0, FALSE, TRUE, <<>>)
                  /\ prevOp' = op
                  /\ ui' = [ui EXCEPT !.handler = "none", !.dirty = FALSE, !.cmds = a.cmds]
                  /\ UNCHANGED crashed
    /\ UNCHANGED <<bak, current_state, active_profile_name, running, found, cmds,
                   lastTick, prevFound, probe>>

\* create_profile, lines 383-388, from the closing of the input dialog on
CreateProfile ==
    /\ ui.open
    /\ ui.handler = "none"
    /\ ui.edits < MaxEdits
    /\ \E name \in NewNames : AddProfile(name)
    /\ ui' = [ui EXCEPT !.edits = @ + 1]

\* delete_profile, lines 390-400, from the user's Yes on: row - 1 is a
\* position of the list
DeleteSelected ==
    /\ ui.open
    /\ ui.handler = "none"
    /\ ui.edits < MaxEdits
    /\ \E row \in 1..MaxList :
          /\ "game_profiles" \in DOMAIN data
          /\ row \in DOMAIN data["game_profiles"]
          /\ DeleteProfile(row - 1)
    /\ ui' = [ui EXCEPT !.edits = @ + 1]

\* the event loop: the timer's slot, the window's slots, and the processes
\* that come and go
NextUI ==
    \/ TickOk
    \/ TickScanFail
    \/ SetRunning
    \/ OpenSettings
    \/ CreateProfile
    \/ DeleteSelected
    \/ SaveCurrentBegin
    \/ SaveCurrentEnd

\* the program starts on a current file, on no file, or on a file without
\* a profile list
SpecUI ==
    /\ InitFrom(<< FileOf(Doc_V1), FileMissing, FileOf(Doc_V1_NoProfiles) >>)
    /\ [][NextUI]_vars

\* C20: ticks and user edits do not interleave: no tick runs while an edit
\* operation has changed the in-memory configuration and has not yet saved
\* it and returned, and no tick starts while a tick is in progress.
C20_NoInterleaving ==
    /\ ~lastTick.dirty
    /\ lastTick.handler # "check_processes"

\* the first detection rule that applies to the document of file f, in the
\* order: profiles without desktop_profile, desktop_profile, games, none
C21_Rule(f) ==
    IF TreeHas(f.doc, "profiles") /\ ~TreeHas(f.doc, "desktop_profile") THEN "wip"
    ELSE IF TreeHas(f.doc, "desktop_profile") THEN "stamp"
    ELSE IF TreeHas(f.doc, "games") THEN "alpha"
    ELSE "none"

\* what the rule gives for the parsed document d
C21_Expected(rule, d) ==
    IF rule = "wip"
    THEN (IF migrate_wip_to_v1(d).raised THEN Defaults ELSE migrate_wip_to_v1(d).data)
    ELSE IF rule = "stamp" THEN DictSet(d, "config_version", CONFIG_VERSION)
    ELSE IF rule = "alpha" THEN migrate_alpha_to_v1(d).data
    ELSE d

\* C21 (legacy shape detection): when load_config has parsed a file whose
\* version is below CONFIG_VERSION, it returns what the first applicable rule
\* gives: the WIP migration of the document for a profiles key without
\* desktop_profile; the document with only its version set to CONFIG_VERSION
\* for a desktop_profile key (profiles and games keys left as they are); the
\* alpha migration for a games key; the document as it is, version untouched,
\* otherwise.
C21_LegacyDetection ==
    (/\ op.name = "load"
     /\ VersionReadable(op.pre_file)
     /\ VersionOf(op.pre_file) < CONFIG_VERSION) =>
        data = C21_Expected(C21_Rule(op.pre_file), json_load(op.pre_file.doc))

\* C22 (well-formed configuration after load): whenever load_config returns,
\* the data it returns have a game_profiles list and a desktop_profile with
\* a monitors mapping, so that get_game_profiles, get_desktop_settings and
\* the matching of a tick find what they read.
C22_WellFormedAfterLoad ==
    (op.name = "load" /\ op.load.outcome # "uncaught") =>
        /\ "game_profiles" \in DOMAIN data
        /\ "desktop_profile" \in DOMAIN data
        /\ "monitors" \in DOMAIN data["desktop_profile"]

\* C23 (state committed only after a completed apply): current_state and
\* active_profile_name change only in a tick that applied a profile and
\* completed, and then to that profile's state; a tick whose application
\* raises ends inside the tick and leaves both as they were before it; and
\* the tick after it, when its listing succeeds and its match is the same,
\* attempts the same application again.
C23_CommitAfterApply ==
    [][/\ (current_state' # current_state \/ active_profile_name' # active_profile_name) =>
            /\ lastTick'.outcome = "ok"
            /\ lastTick'.applied # "none"
            /\ current_state' = lastTick'.applied
       /\ (lastTick'.outcome = "raised" /\ lastTick'.applied # "none") =>
            /\ ~crashed'
            /\ current_state' = lastTick'.pre_state
            /\ active_profile_name' = lastTick'.pre_name
       /\ (/\ lastTick.outcome = "raised"
           /\ lastTick.applied # "none"
           /\ running' = running
           /\ lastTick'.scan = "ok"
           /\ found' = found) =>
            lastTick'.applied = lastTick.applied]_vars

\* a game profile without a monitors mapping was matched after a completed
\* desktop tick: its application raised and the state is still the desktop's
C23_Witness ==
    /\ lastTick.outcome = "raised"
    /\ lastTick.applied = "game"
    /\ lastTick.pre_state = "desktop"
    /\ current_state = "desktop"
    /\ active_profile_name = NoneValue
    /\ ~crashed

====
